---- MODULE Spec2Model ----
(***************************************************************************)
(* Model of pitch_detection.py: the windowed pitch tracker detect_pitches  *)
(* and the standalone spectral estimator detect_pitch_parabolic with its   *)
(* helper column_wise_local_max.                                           *)
(*                                                                         *)
(* Frequencies and magnitudes are integers; every quotient the code forms  *)
(* (i/fs, the mean, the parabolic shift, the refined magnitude) is kept as *)
(* an exact fraction <<numerator, denominator>> with a positive            *)
(* denominator.                                                            *)
(***************************************************************************)
EXTENDS Integers, Sequences, FiniteSets, TLC

VARIABLES
  \* ---- detect_pitches ----
  ndim,          \* snd.ndim of the buffer passed in
  snd_len,       \* len(snd)
  fs,            \* sample rate
  window_len,    \* window length in samples
  thresh,        \* event threshold in Hz
  pc,            \* position in detect_pitches
  i,             \* loop variable: sample offset of the next window
  all_pitches,   \* the contour
  pitches,       \* the event list, sentinel included
  windows,       \* the windows processed so far: offset, slice length, candidates
  ret,           \* the returned pair, <<>> before the return
  \* ---- detect_pitch_parabolic / column_wise_local_max ----
  ppc,           \* position of the spectral estimator
  signal,        \* the caller's sample buffer (fractions)
  signal0,       \* the samples the caller passed in
  spec,          \* the magnitude spectrogram, spec[bin][frame]
  rel_thresh,    \* thresh argument of column_wise_local_max, a fraction
  peaks,         \* result of the direct call of column_wise_local_max
  pitches_grid,  \* the array pitches of detect_pitch_parabolic
  magnitudes,    \* the array magnitudes of detect_pitch_parabolic
  result         \* value returned by detect_pitch_parabolic

trackVars == <<ndim, snd_len, fs, window_len, thresh, pc, i, all_pitches,
               pitches, windows, ret>>
parVars   == <<ppc, signal, signal0, spec, rel_thresh, peaks, pitches_grid,
               magnitudes, result>>
vars      == <<ndim, snd_len, fs, window_len, thresh, pc, i, all_pitches,
               pitches, windows, ret,
               ppc, signal, signal0, spec, rel_thresh, peaks, pitches_grid,
               magnitudes, result>>

----------------------------------------------------------------------------
(* Arithmetic helpers                                                      *)

Abs(x) == IF x < 0 THEN -x ELSE x

Min(a, b) == IF a < b THEN a ELSE b

Last(s) == s[Len(s)]

\* a/b < c/d for fractions with positive denominators, without forming
\* the cross products of the integer parts
FracLess(p, q) ==
  LET fp == p[1] \div p[2]
      fq == q[1] \div q[2]
  IN  \/ fp < fq
      \/ /\ fp = fq
         /\ (p[1] % p[2]) * q[2] < (q[1] % q[2]) * p[2]

FracEq(p, q) == ~FracLess(p, q) /\ ~FracLess(q, p)

----------------------------------------------------------------------------
(* Bounds and input sets of the tracker                                    *)

MaxLen == 6

WindowLens == {2, 3}

Threshs == {10, 100}

SampleRates == {1, 2}

Freqs == {0, 5, 100, 200}

\* detect_pitches reads at most the first two candidates of a window
CandLists == {<<>>} \cup {<<a>> : a \in Freqs}
                    \cup {<<a, b>> : a \in Freqs, b \in Freqs}

----------------------------------------------------------------------------
(* detect_pitches                                                          *)

octave_thresh == 5

\* i/fs with integer operands
TimeOfFloorDiv(offset, rate) == <<offset \div rate, 1>>

\* float(i)/float(fs)
TimeOf(offset, rate) == <<offset, rate>>

Entry(offset, rate, pitch) == [t |-> TimeOf(offset, rate), f |-> pitch]

\* the dummy pitch (0, 0) that seeds the event list
Sentinel == [t |-> <<0, 1>>, f |-> 0]

\* an assertion that only excludes scalars
AssertHasAxis(d) == d >= 1

\* assert(snd.ndim == 1)
AssertMono(d) == d = 1

\* clean_audio returns a new sequence of the same length
clean_audio(n) == n

\* np.abs((second / pitch) - 2) < octave_thresh, in float arithmetic:
\* a zero pitch gives inf or nan and the comparison is False
OctaveGate(second, pitch) ==
  IF pitch = 0 THEN FALSE
  ELSE IF pitch > 0
       THEN /\ second > (2 - octave_thresh) * pitch
            /\ second < (2 + octave_thresh) * pitch
       ELSE /\ second < (2 - octave_thresh) * pitch
            /\ second > (2 + octave_thresh) * pitch

\* the octave rule without the i != 0 guard
OctaveFiresAnywhere(possible_pitches, last_pitch, offset) ==
  /\ Len(possible_pitches) > 1
  /\ Abs(possible_pitches[1] - last_pitch)
       > Abs(last_pitch - possible_pitches[2])
  /\ OctaveGate(possible_pitches[2], possible_pitches[1])

\* the condition of "Edge case 1"
OctaveFires(possible_pitches, last_pitch, offset) ==
  /\ Len(possible_pitches) > 1
  /\ offset # 0
  /\ Abs(possible_pitches[1] - last_pitch)
       > Abs(last_pitch - possible_pitches[2])
  /\ OctaveGate(possible_pitches[2], possible_pitches[1])

\* the pitch a window contributes
SelectPitch(possible_pitches, last_pitch, offset) ==
  IF OctaveFires(possible_pitches, last_pitch, offset)
  THEN possible_pitches[2]
  ELSE possible_pitches[1]

\* last_pitch read from the contour instead of the event list
LastPitchOfContour(evs, contour) ==
  IF contour = <<>> THEN 0 ELSE Last(contour).f

\* last_pitch = pitches[-1][1]
LastPitch(evs, contour) == Last(evs).f

\* the gate with the sign of last_pitch flipped
EventGateSum(pitch, last_pitch, th) == Abs(pitch + last_pitch) >= th

\* np.abs(pitch - last_pitch) >= thresh
EventGate(pitch, last_pitch, th) == Abs(pitch - last_pitch) >= th

\* pitches[1:], all_pitches
Returned(evs, contour) == <<Tail(evs), contour>>

ParIdle ==
  /\ ppc = "idle" /\ signal = <<>> /\ signal0 = <<>> /\ spec = <<>>
  /\ rel_thresh = <<1, 10>> /\ peaks = <<>> /\ pitches_grid = <<>>
  /\ magnitudes = <<>> /\ result = <<>>

Init ==
  /\ ndim \in {1, 2}
  /\ snd_len \in 0..MaxLen
  /\ fs \in SampleRates
  /\ window_len \in WindowLens
  /\ thresh \in Threshs
  /\ pc = "start"
  /\ i = 0
  /\ all_pitches = <<>>
  /\ pitches = <<>>
  /\ windows = <<>>
  /\ ret = <<>>
  /\ ParIdle

\* line 94 fails: AssertionError, nothing is returned
Reject ==
  /\ pc = "start"
  /\ ~AssertMono(ndim)
  /\ pc' = "raised"
  /\ UNCHANGED <<ndim, snd_len, fs, window_len, thresh, i, all_pitches,
                 pitches, windows, ret>>
  /\ UNCHANGED parVars

\* lines 94-100
Begin ==
  /\ pc = "start"
  /\ AssertMono(ndim)
  /\ snd_len' = clean_audio(snd_len)
  /\ all_pitches' = <<>>
  /\ pitches' = <<Sentinel>>
  /\ i' = 0
  /\ pc' = "loop"
  /\ UNCHANGED <<ndim, fs, window_len, thresh, windows, ret>>
  /\ UNCHANGED parVars

\* one iteration of the loop of lines 101-113
Window ==
  /\ pc = "loop"
  /\ i < snd_len
  /\ \E possible_pitches \in CandLists :
       LET sig_len == Min(snd_len, i + window_len) - i
           last_pitch == LastPitch(pitches, all_pitches)
           pitch == SelectPitch(possible_pitches, last_pitch, i)
       IN  /\ windows' = Append(windows, [i |-> i, n |-> sig_len,
                                         pp |-> possible_pitches])
           /\ IF Len(possible_pitches) # 0
              THEN /\ all_pitches' = Append(all_pitches, Entry(i, fs, pitch))
                   /\ pitches' = IF EventGate(pitch, last_pitch, thresh)
                                 THEN Append(pitches, Entry(i, fs, pitch))
                                 ELSE pitches
              ELSE UNCHANGED <<all_pitches, pitches>>
  /\ i' = i + window_len
  /\ UNCHANGED <<ndim, snd_len, fs, window_len, thresh, pc, ret>>
  /\ UNCHANGED parVars

\* line 114
Return ==
  /\ pc = "loop"
  /\ i >= snd_len
  /\ ret' = Returned(pitches, all_pitches)
  /\ pc' = "done"
  /\ UNCHANGED <<ndim, snd_len, fs, window_len, thresh, i, all_pitches,
                 pitches, windows>>
  /\ UNCHANGED parVars

Next == Reject \/ Begin \/ Window \/ Return

Spec == Init /\ [][Next]_vars

----------------------------------------------------------------------------
(* Properties of detect_pitches                                            *)

RECURSIVE IsSubseq(_, _)
IsSubseq(s, t) ==
  IF s = <<>> THEN TRUE
  ELSE IF t = <<>> THEN FALSE
  ELSE IF Head(s) = Head(t) THEN IsSubseq(Tail(s), Tail(t))
  ELSE IsSubseq(s, Tail(t))

IsSentinelEntry(e) == e.t[1] = 0 /\ e.f = 0

NonEmptyWindows == SelectSeq(windows, LAMBDA w : w.pp # <<>>)

\* every candidate of the windows ws is a positive frequency
PositiveCands(ws) ==
  \A k \in 1..Len(ws) : \A c \in 1..Len(ws[k].pp) : ws[k].pp[c] > 0

\* C1: the returned event list is an order-preserving subsequence of the
\* returned contour, holds no (0 s, 0 Hz) entry, and each entry differs by
\* at least thresh from the entry retained before it (from 0 Hz for the
\* first entry).
C1_EventsSubsequence ==
  pc = "done" =>
    LET ev == ret[1]
        co == ret[2]
    IN  /\ IsSubseq(ev, co)
        /\ \A k \in 1..Len(ev) :
             /\ ~IsSentinelEntry(ev[k])
             /\ Abs(ev[k].f - (IF k = 1 THEN 0 ELSE ev[k-1].f)) >= thresh

C1_Witness ==
  /\ pc = "done"
  /\ Len(ret[1]) >= 2
  /\ Len(ret[2]) > Len(ret[1])
  /\ \E k \in 1..Len(windows) : Len(windows[k].pp) = 2

\* the contour mirrors the non-empty windows processed so far
ContourInv ==
  pc \in {"loop", "done"} =>
    LET ne == NonEmptyWindows
    IN  /\ \A k \in 1..Len(windows) :
             /\ windows[k].i = (k - 1) * window_len
             /\ windows[k].i < snd_len
             /\ windows[k].n = Min(window_len, snd_len - windows[k].i)
        /\ Len(all_pitches) = Len(ne)
        /\ \A k \in 1..Len(ne) :
             /\ FracEq(all_pitches[k].t, <<ne[k].i, fs>>)
             /\ \E c \in 1..Len(ne[k].pp) : all_pitches[k].f = ne[k].pp[c]
        /\ \A k \in 1..(Len(all_pitches) - 1) :
             FracLess(all_pitches[k].t, all_pitches[k+1].t)
        /\ pc = "done" =>
             /\ Len(windows) * window_len >= snd_len
             /\ (Len(windows) - 1) * window_len < snd_len \/ windows = <<>>
             /\ ret[2] = all_pitches

\* a window without candidates changes neither list
EmptyWindowFrame ==
  (Len(windows') = Len(windows) + 1 /\ Last(windows').pp = <<>>)
    => UNCHANGED <<all_pitches, pitches>>

\* C2: windows sit at offsets 0, window_len, 2*window_len, ... with the last
\* one truncated; the contour holds exactly one entry (i/fs, pitch) per
\* window with candidates, in strictly increasing time order; a window
\* without candidates leaves the contour and the event list unchanged.
C2_ContourPerWindow == []ContourInv /\ [][EmptyWindowFrame]_vars

C2_Witness ==
  /\ pc = "done"
  /\ Len(windows) >= 3
  /\ Last(windows).n < window_len
  /\ windows[2].pp = <<>>
  /\ Len(all_pitches) = Len(windows) - 1
  /\ fs > 1

\* the windows form two segments split after window h
TwoSegmentAt(h) ==
  LET n == Len(windows)
  IN  /\ h \in 1..(n - 1)
      /\ h \in {n \div 2, (n + 1) \div 2}
      /\ \A k \in 1..n : windows[k].pp # <<>>
      /\ \A k \in 1..h : windows[k].pp[1] = windows[1].pp[1]
      /\ \A k \in (h + 1)..n : windows[k].pp[1] = windows[h+1].pp[1]
      /\ Abs(windows[1].pp[1] - windows[h+1].pp[1]) > thresh

\* C3 as stated: a two-segment signal, whatever (positive) second candidates
\* its windows carry, gives exactly two events.
C3_TwoSegmentsTwoEvents ==
  (pc = "done" /\ PositiveCands(windows)) =>
    \A h \in 1..Len(windows) : TwoSegmentAt(h) => Len(ret[1]) = 2

\* the octave rule leaves the first window of the second segment alone
TransitionKept(h) ==
  LET f1 == windows[1].pp[1]
      pp == windows[h+1].pp
  IN  \/ Len(pp) < 2
      \/ Abs(pp[1] - f1) <= Abs(f1 - pp[2])
      \/ ~OctaveGate(pp[2], pp[1])

\* C3 amended: a two-segment signal with |f1| >= thresh whose first window of
\* the second segment is not replaced by its second candidate gives exactly
\* two events, whatever the other second candidates are.
C3_TwoSegmentsAmended ==
  pc = "done" =>
    \A h \in 1..Len(windows) :
      (TwoSegmentAt(h) /\ Abs(windows[1].pp[1]) >= thresh /\ TransitionKept(h))
        => Len(ret[1]) = 2

C3_Witness ==
  /\ pc = "done"
  /\ Len(windows) >= 3
  /\ \E h \in 1..Len(windows) :
       /\ TwoSegmentAt(h)
       /\ Abs(windows[1].pp[1]) >= thresh
       /\ TransitionKept(h)
       /\ Len(windows[h+1].pp) = 2
  /\ \A k \in 1..Len(windows) : Len(windows[k].pp) = 2
  /\ Len(ret[1]) = 2

\* C4 as stated: a multi-channel or empty buffer never gives a normal
\* result.
C4_RejectsEmptyOrMulti ==
  (ndim # 1 \/ snd_len = 0) => (pc # "done" /\ ret = <<>>)

\* C4 amended: a multi-channel buffer fails the assertion and returns
\* nothing; an empty mono buffer returns the pair of two empty lists.
C4_RejectsMultiOnly ==
  /\ ndim # 1 => (pc \in {"start", "raised"} /\ ret = <<>>)
  /\ (ndim = 1 /\ snd_len = 0 /\ pc = "done") => ret = << <<>>, <<>> >>

C4_Witness == pc = "raised" /\ ndim = 2 /\ snd_len > 0

ContourAppended == Len(all_pitches') = Len(all_pitches) + 1

C10_FirstContourIsFirstCandidate ==
  (all_pitches # <<>> /\ PositiveCands(windows)) =>
    all_pitches[1].f = NonEmptyWindows[1].pp[1]

----------------------------------------------------------------------------
(* Bounds and input sets of the spectral estimator                         *)

NBins == 3

NFrames == 2

MaxSigLen == 2

Mags == {0, 5, 6}

SigVals == {-1, 1}

RelThreshs == {<<1, 10>>, <<9, 10>>, <<1, 1>>}

Bins == 0..(NBins - 1)

Frames == 0..(NFrames - 1)

\* stft_mag gives a grid of non-negative magnitudes, bins by frames
Grids == [Bins -> [Frames -> Mags]]

Signals == UNION {[1..n -> SigVals] : n \in 0..MaxSigLen}

----------------------------------------------------------------------------
(* detect_pitch_parabolic and column_wise_local_max                        *)

win_len == 4096

\* eps = 0.0000001 = 1/EpsInv
EpsInv == 10000000

max_thresh == <<1, 10>>

RECURSIVE SumSeq(_)
SumSeq(s) == IF s = <<>> THEN 0 ELSE Head(s) + SumSeq(Tail(s))

\* signal -= np.mean(signal): the subtraction writes into the array passed in
RemoveDC(sig) ==
  LET n == Len(sig)
      total == SumSeq(sig)
  IN  [k \in 1..n |-> <<sig[k] * n - total, n>>]

\* np.max(x, axis=0) for frame t
ColMax(x, t) == CHOOSE m \in {x[b][t] : b \in DOMAIN x} :
                  \A b \in DOMAIN x : x[b][t] <= m

\* x = x * (x > thresh * np.max(x, axis=0)), entry (b, t)
Thresholded(x, th, b, t) ==
  IF x[b][t] * th[2] > th[1] * ColMax(x, t) THEN x[b][t] ELSE 0

\* np.pad(x, [(1, 1), (0, 0)], mode=...) read at row b - 1 and row b + 1
PadBelow(x, th, b, t, mode) ==
  IF b - 1 \in DOMAIN x THEN Thresholded(x, th, b - 1, t)
  ELSE IF mode = "edge" THEN Thresholded(x, th, b, t) ELSE 0

PadAbove(x, th, b, t, mode) ==
  IF b + 1 \in DOMAIN x THEN Thresholded(x, th, b + 1, t)
  ELSE IF mode = "edge" THEN Thresholded(x, th, b, t) ELSE 0

ColumnPeaks(x, th, mode) ==
  [b \in DOMAIN x |-> [t \in DOMAIN x[b] |->
     /\ Thresholded(x, th, b, t) > PadBelow(x, th, b, t, mode)
     /\ Thresholded(x, th, b, t) >= PadAbove(x, th, b, t, mode)]]

\* the padding done with zeros
column_wise_local_max_zero_pad(x, th) == ColumnPeaks(x, th, "constant")

column_wise_local_max(x, th) == ColumnPeaks(x, th, "edge")

Interior(x, b) == (b - 1) \in DOMAIN x /\ (b + 1) \in DOMAIN x

\* shift_two = spec[2:] - spec[:-2], padded with a zero row at both ends
ShiftTwo(x, b, t) == IF Interior(x, b) THEN x[b+1][t] - x[b-1][t] ELSE 0

\* shift = 2*(spec[1:-1] - shift_two); shift[shift < eps] = eps
ShiftDen(x, b, t) ==
  LET d == 2 * (x[b][t] - ShiftTwo(x, b, t))
  IN  IF d * EpsInv < 1 THEN <<1, EpsInv>> ELSE <<d, 1>>

\* shift = average / shift, zero in the padded rows
Shift(x, b, t) ==
  IF Interior(x, b)
  THEN LET den == ShiftDen(x, b, t)
       IN  <<ShiftTwo(x, b, t) * den[2], 2 * den[1]>>
  ELSE <<0, 1>>

\* dskew = 0.5 * avg * shift
DSkew(x, b, t) ==
  LET sh == Shift(x, b, t)
  IN  <<ShiftTwo(x, b, t) * sh[1], 4 * sh[2]>>

\* (idx[:, 0] + shift[idx]) * float(sample_rate) / win_len
RefinedPitch(x, b, t, rate) ==
  LET sh == Shift(x, b, t)
  IN  <<(b * sh[2] + sh[1]) * rate, sh[2] * win_len>>

\* spec[idx] + dskew[idx]
RefinedMagnitude(x, b, t) ==
  LET ds == DSkew(x, b, t)
  IN  <<x[b][t] * ds[2] + ds[1], ds[2]>>

PitchesOf(x, rate) ==
  LET pk == column_wise_local_max(x, max_thresh)
  IN  [b \in DOMAIN x |-> [t \in DOMAIN x[b] |->
        IF pk[b][t] THEN RefinedPitch(x, b, t, rate) ELSE <<0, 1>>]]

MagnitudesOf(x) ==
  LET pk == column_wise_local_max(x, max_thresh)
  IN  [b \in DOMAIN x |-> [t \in DOMAIN x[b] |->
        IF pk[b][t] THEN RefinedMagnitude(x, b, t) ELSE <<0, 1>>]]

\* np.argmax(m, axis=0) for frame t: the first bin holding the maximum
ArgMax(m, t) ==
  CHOOSE b \in DOMAIN m :
    /\ \A c \in DOMAIN m : ~FracLess(m[b][t], m[c][t])
    /\ \A c \in DOMAIN m : c < b => FracLess(m[c][t], m[b][t])

\* pitches[np.argmax(magnitudes, axis=0)]: the index array selects rows
Selected(p, m) ==
  [j \in Frames |-> [t \in Frames |-> p[ArgMax(m, j)][t]]]

TrackIdle ==
  /\ ndim = 1 /\ snd_len = 0 /\ window_len = 2 /\ thresh = 10
  /\ pc = "idle" /\ i = 0 /\ all_pitches = <<>> /\ pitches = <<>>
  /\ windows = <<>> /\ ret = <<>>

InitPar ==
  /\ TrackIdle
  /\ fs \in SampleRates
  /\ ppc = "start"
  /\ signal0 = <<>>
  /\ signal = <<>>
  /\ spec \in Grids
  /\ rel_thresh = max_thresh
  /\ peaks = <<>>
  /\ pitches_grid = <<>>
  /\ magnitudes = <<>>
  /\ result = <<>>

\* a call column_wise_local_max(spec, th)
CallColumnWiseLocalMax ==
  /\ ppc = "start"
  /\ \E th \in RelThreshs :
       /\ rel_thresh' = th
       /\ peaks' = column_wise_local_max(spec, th)
  /\ ppc' = "peaks"
  /\ UNCHANGED <<signal, signal0, spec, pitches_grid, magnitudes, result>>
  /\ UNCHANGED trackVars

\* a call detect_pitch_parabolic(sig, fs) in which stft_mag returns spec
DetectPitchParabolic ==
  /\ ppc = "start"
  /\ \E sig \in Signals :
       /\ signal0' = sig
       /\ signal' = RemoveDC(sig)
  /\ pitches_grid' = PitchesOf(spec, fs)
  /\ magnitudes' = MagnitudesOf(spec)
  /\ result' = Selected(pitches_grid', magnitudes')
  /\ ppc' = "done"
  /\ UNCHANGED <<spec, rel_thresh, peaks>>
  /\ UNCHANGED trackVars

NextPar == CallColumnWiseLocalMax \/ DetectPitchParabolic

SpecPar == InitPar /\ [][NextPar]_vars

----------------------------------------------------------------------------
(* Properties of the spectral estimator                                    *)

StrictInteriorMax(x, b, t) ==
  /\ Interior(x, b)
  /\ x[b][t] > x[b-1][t]
  /\ x[b][t] > x[b+1][t]

\* C5: at a strict interior local maximum the refined frequency lies within
\* one bin width of bin * sample_rate / win_len.
C5_RefinedWithinOneBin ==
  ppc = "done" =>
    \A b \in Bins, t \in Frames :
      (StrictInteriorMax(spec, b, t)
         /\ column_wise_local_max(spec, max_thresh)[b][t]) =>
        /\ ~FracLess(pitches_grid[b][t], <<(b - 1) * fs, win_len>>)
        /\ ~FracLess(<<(b + 1) * fs, win_len>>, pitches_grid[b][t])

RawBelow(x, b, t) == IF b - 1 \in DOMAIN x THEN x[b-1][t] ELSE x[b][t]

RawAbove(x, b, t) == IF b + 1 \in DOMAIN x THEN x[b+1][t] ELSE x[b][t]

\* C6: column_wise_local_max marks (bin, frame) exactly when the magnitude
\* exceeds thresh * columnMax, is greater than the bin below and at least
\* the bin above (boundary rows against a copy of themselves); no marked
\* bin is below thresh * columnMax.
C6_ColumnPeaksExact ==
  ppc = "peaks" =>
    \A b \in Bins, t \in Frames :
      /\ peaks[b][t] <=>
           /\ spec[b][t] * rel_thresh[2] > rel_thresh[1] * ColMax(spec, t)
           /\ spec[b][t] > RawBelow(spec, b, t)
           /\ spec[b][t] >= RawAbove(spec, b, t)
      /\ peaks[b][t] =>
           ~(spec[b][t] * rel_thresh[2] < rel_thresh[1] * ColMax(spec, t))

C6_Witness ==
  /\ ppc = "peaks"
  /\ \E t \in Frames :
       /\ peaks[1][t] /\ spec[1][t] = spec[2][t]
       /\ spec[0][t] > 0
  /\ \E t \in Frames : peaks[NBins - 1][t]
  /\ rel_thresh = <<1, 10>>

C8_BufferUntouched ==
  ppc = "done" =>
    /\ Len(signal) = Len(signal0)
    /\ \A k \in 1..Len(signal0) : FracEq(signal[k], <<signal0[k], 1>>)

====
